---------------------------- MODULE Spec2Model ----------------------------
(***************************************************************************)
(* Scoring and ranking engine of the place recommendation system:          *)
(* core_logic/scoring.py, core_logic/ranking.py, the sentiment analyzer    *)
(* of nlp_models/sentiment_analyzer.py and the /api/recommend handler of   *)
(* ui/web_ui.py.                                                           *)
(*                                                                         *)
(* Numbers.  Python floats are modelled as exact rationals <<n, d>> in     *)
(* lowest terms with d > 0, so the arithmetic of the model is that of the  *)
(* reals; round(x, 4) yields an integer number of 1/10000 units.           *)
(* Geography.  Coordinates are positions in km along one meridian, so the  *)
(* great-circle distance of two coordinates is the absolute difference.    *)
(* Text.  A review text is a sequence of character classes; what the two   *)
(* language models answer for a text is a fixed table over the texts.      *)
(***************************************************************************)
EXTENDS Integers, Sequences, FiniteSets, TLC

\* ------------------------------------------------------------- bounds
MaxPlaces == 3      \* longest places list
MaxReviews == 3     \* most reviews of one place
MaxWeight == 2      \* largest raw preference weight
MaxScale == 3       \* largest factor a preference mapping is scaled by

\* The value of a dictionary key: Absent when the key is not there (dict.get's
\* miss, a KeyError's cause), Some(x) when it holds x.
Absent == <<>>
Some(x) == <<x>>
\* Python's None, among the text values (sequences of character classes).
None == <<"None">>

\* ---------------------------------------------------------- rationals
Abs(x) == IF x < 0 THEN -x ELSE x

RECURSIVE GCD(_, _)
GCD(a, b) == IF b = 0 THEN a ELSE GCD(b, a % b)

\* The rational n/d (d # 0) in lowest terms with a positive denominator.
Q(n, d) ==
    LET g == GCD(Abs(n), Abs(d))
        s == IF d < 0 THEN -1 ELSE 1
    IN  <<(s * n) \div g, (s * d) \div g>>

QInt(k) == <<k, 1>>
QAdd(a, b) == Q(a[1] * b[2] + b[1] * a[2], a[2] * b[2])
QSub(a, b) == Q(a[1] * b[2] - b[1] * a[2], a[2] * b[2])
QMul(a, b) == Q(a[1] * b[1], a[2] * b[2])
QDiv(a, b) == Q(a[1] * b[2], a[2] * b[1])
QLe(a, b) == a[1] * b[2] <= b[1] * a[2]
QLt(a, b) == a[1] * b[2] < b[1] * a[2]
QZero == QInt(0)
QOne == QInt(1)
QHalf == Q(1, 2)

\* The integer nearest to m/k (k > 0), a tie going to the even one.
RoundDiv(m, k) ==
    LET fl == m \div k
        r == m % k
    IN  IF 2 * r < k THEN fl
        ELSE IF 2 * r > k THEN fl + 1
        ELSE IF fl % 2 = 0 THEN fl ELSE fl + 1

\* round(x, 4): the nearest multiple of 1/10000, a tie going to the even
\* one, as an integer number of 1/10000 units.
Round4(q) == RoundDiv(q[1] * 10000, q[2])

\* sum() of a sequence of rationals.
RECURSIVE QSum(_)
QSum(s) == IF s = <<>> THEN QZero ELSE QAdd(Head(s), QSum(Tail(s)))


\* -------------------------------------------------------------- texts
\* Character classes: Arabic letter, English letter, whitespace, other.
CharClasses == {"ar", "en", "sp", "dg"}

T_EMPTY == <<>>
T_SPACES == <<"sp", "sp">>
T_EN_A == <<"en", "en", "en">>
T_EN_B == <<"en", "sp", "en">>
T_AR == <<"ar", "ar", "en">>
T_MIXED == <<"sp", "ar", "en", "dg">>

\* The strings a review's text is drawn from.
Strings == {T_EMPTY, T_SPACES, T_EN_A, T_EN_B, T_AR, T_MIXED}

RECURSIVE CountClass(_, _)
CountClass(text, c) ==
    IF text = <<>> THEN 0
    ELSE (IF Head(text) = c THEN 1 ELSE 0) + CountClass(Tail(text), c)

\* str.strip()
RECURSIVE LStrip(_)
LStrip(text) ==
    IF text # <<>> /\ Head(text) = "sp" THEN LStrip(Tail(text)) ELSE text

RECURSIVE RStrip(_)
RStrip(text) ==
    IF text # <<>> /\ text[Len(text)] = "sp"
    THEN RStrip(SubSeq(text, 1, Len(text) - 1))
    ELSE text

strip(text) == RStrip(LStrip(text))

\* Python truthiness of a text value: None and the empty string are falsy.
Truthy(text) == text # None /\ text # <<>>

_detect_language_by_character(text) ==
    IF text = None THEN "unknown"
    ELSE LET arabic_chars == CountClass(text, "ar")
             english_chars == CountClass(text, "en")
         IN  IF arabic_chars > english_chars THEN "ar"
             ELSE IF english_chars > arabic_chars THEN "en"
             ELSE "unknown"

\* ------------------------------------------------------ collaborators
\* The label a loaded sentiment pipeline gives a text.
PipelineLabel(text) ==
    CASE text = T_EN_A -> "LABEL_1"
      [] text = T_EN_B -> "LABEL_0"
      [] text = T_AR -> "LABEL_1"
      [] OTHER -> "LABEL_0"

predefined_attributes == <<"Cozy", "Trendy">>

\* An attribute name a user may weigh that is not a predefined attribute.
OtherAttribute == "Spicy"

Range(s) == {s[i] : i \in DOMAIN s}

\* The similarity of a non-blank text to one attribute.
Similarity(text, attr) ==
    CASE text = T_EN_A /\ attr = "Cozy" -> QOne
      [] text = T_EN_A /\ attr = "Trendy" -> QZero
      [] text = T_EN_B /\ attr = "Cozy" -> Q(1, 4)
      [] text = T_EN_B /\ attr = "Trendy" -> QOne
      [] text = T_AR -> QHalf
      [] OTHER -> QZero

\* A PreferenceEmbedder: attribute_names is Absent (None) until
\* generate_attribute_embeddings has stored a list; raising tells whether
\* model.encode raises when it is called on a review text.
Embedder(attribute_names, raising) ==
    [attribute_names |-> attribute_names, raising |-> raising]

\* PreferenceEmbedder.generate_attribute_embeddings: the exception it ends in
\* ("none" when it returns) and the embedder as the call leaves it.
generate_attribute_embeddings(embedder, attributes) ==
    IF attributes = <<>>
    THEN [exc |-> "ValueError", embedder |-> embedder]
    ELSE [exc |-> "none",
          embedder |-> [embedder EXCEPT !.attribute_names = Some(attributes)]]

\* PreferenceEmbedder.get_review_attribute_scores: a dictionary over the
\* embedder's attribute names, the empty one when no attributes are set.
get_review_attribute_scores(embedder, review_text) ==
    IF embedder.attribute_names = Absent THEN <<>>
    ELSE IF ~Truthy(review_text) \/ ~Truthy(strip(review_text))
    THEN [attr \in Range(embedder.attribute_names[1]) |-> QZero]
    ELSE [attr \in Range(embedder.attribute_names[1]) |->
             Similarity(review_text, attr)]

\* dict.get(key, default)
Get(value, default) == IF value = Absent THEN default ELSE value[1]

\* Mutant: a blank review is scored 0, as with no models loaded.
analyze_review_blank_as_zero(pipelines, review) ==
    IF pipelines = {} THEN [review EXCEPT !.sentiment_score = Some(QZero)]
    ELSE LET text == Get(review.text, T_EMPTY)
         IN  IF ~Truthy(text) \/ ~Truthy(strip(text))
             THEN [review EXCEPT !.sentiment_score = Some(QZero)]
             ELSE LET lang == _detect_language_by_character(text)
                  IN  IF lang \in pipelines
                      THEN [review EXCEPT !.sentiment_score =
                              IF PipelineLabel(text) = "LABEL_1"
                              THEN Some(QOne) ELSE Some(QZero)]
                      ELSE [review EXCEPT !.sentiment_score = Some(QHalf)]

\* Mutant: with no models loaded the reviews are returned as they came.
analyze_review_unloaded_unwritten(pipelines, review) ==
    IF pipelines = {} THEN review
    ELSE LET text == Get(review.text, T_EMPTY)
         IN  IF ~Truthy(text) \/ ~Truthy(strip(text))
             THEN [review EXCEPT !.sentiment_score = Some(QHalf)]
             ELSE LET lang == _detect_language_by_character(text)
                  IN  IF lang \in pipelines
                      THEN [review EXCEPT !.sentiment_score =
                              IF PipelineLabel(text) = "LABEL_1"
                              THEN Some(QOne) ELSE Some(QZero)]
                      ELSE [review EXCEPT !.sentiment_score = Some(QHalf)]

\* One review after SentimentAnalyzer.analyze_reviews has written to it.
AnalyzeReview(pipelines, review) ==
    IF pipelines = {} THEN [review EXCEPT !.sentiment_score = Some(QZero)]
    ELSE LET text == Get(review.text, T_EMPTY)
         IN  IF ~Truthy(text) \/ ~Truthy(strip(text))
             THEN [review EXCEPT !.sentiment_score = Some(QHalf)]
             ELSE LET lang == _detect_language_by_character(text)
                  IN  IF lang \in pipelines
                      THEN [review EXCEPT !.sentiment_score =
                              IF PipelineLabel(text) = "LABEL_1"
                              THEN Some(QOne) ELSE Some(QZero)]
                      ELSE [review EXCEPT !.sentiment_score = Some(QHalf)]

\* Mutant: the new score is added to the one the review already carries.
analyze_reviews_accumulating(pipelines, reviews) ==
    [k \in DOMAIN reviews |->
        [reviews[k] EXCEPT !.sentiment_score =
            Some(QAdd(Get(reviews[k].sentiment_score, QZero),
                      AnalyzeReview(pipelines, reviews[k]).sentiment_score[1]))]]

\* SentimentAnalyzer.analyze_reviews: the same list, each review written to.
analyze_reviews(pipelines, reviews) ==
    [k \in DOMAIN reviews |-> AnalyzeReview(pipelines, reviews[k])]

\* A SentimentAnalyzer: its pipelines ({} when loading failed) and the
\* languages whose pipeline raises when it is called on a text.
SentimentAnalyzer(pipelines, raising) ==
    [pipelines |-> pipelines, raising |-> raising]

\* The language whose pipeline analyze_reviews calls on the review (line
\* 93), "" when it calls none.
PipelineFor(pipelines, review) ==
    LET text == Get(review.text, T_EMPTY)
    IN  IF pipelines = {} THEN ""
        ELSE IF ~Truthy(text) \/ ~Truthy(strip(text)) THEN ""
        ELSE IF _detect_language_by_character(text) \in pipelines
             THEN _detect_language_by_character(text)
             ELSE ""

\* The position of the first review on which a pipeline call raises, 0 when
\* none does.
FirstRaising(sentiment_analyzer, reviews) ==
    LET raises == {k \in DOMAIN reviews :
                      PipelineFor(sentiment_analyzer.pipelines, reviews[k])
                          \in sentiment_analyzer.raising}
    IN  IF raises = {} THEN 0
        ELSE CHOOSE k \in raises : \A j \in raises : k <= j

\* The pipeline calls analyze_reviews makes on the first n reviews, each as
\* <<language, text>>.
PipelineCalls(pipelines, reviews, n) ==
    {<<PipelineFor(pipelines, reviews[k]), Get(reviews[k].text, T_EMPTY)>> :
        k \in {j \in 1..n : PipelineFor(pipelines, reviews[j]) # ""}}

\* ------------------------------------------------------------ scoring
\* sum(d.values()) of a dictionary of rationals.
RECURSIVE SumValues(_)
SumValues(d) ==
    IF DOMAIN d = {} THEN QZero
    ELSE LET k == CHOOSE x \in DOMAIN d : TRUE
         IN  QAdd(d[k], SumValues([x \in DOMAIN d \ {k} |-> d[x]]))

\* Mutant: the guard is `if review_text:`, a text of whitespace passes.
has_content_unstripped(review) == Truthy(Get(review.text, T_EMPTY))

\* `review_text and review_text.strip()` of scoring.py, line 41.
HasContent(review) ==
    LET review_text == Get(review.text, T_EMPTY)
    IN  Truthy(review_text) /\ Truthy(strip(review_text))

\* attribute_sums[attr] once the loop over the reviews has ended.
RECURSIVE AttributeSum(_, _, _)
AttributeSum(reviews, attr, embedder) ==
    IF reviews = <<>> THEN QZero
    ELSE LET review == Head(reviews)
             scores == get_review_attribute_scores(embedder,
                                                   Get(review.text, T_EMPTY))
             here == IF HasContent(review) /\ attr \in DOMAIN scores
                     THEN scores[attr] ELSE QZero
         IN  QAdd(here, AttributeSum(Tail(reviews), attr, embedder))

\* The calls of get_review_attribute_scores the loop of lines 39-45 makes,
\* each as <<"embedder", text>>; the loop ends at the first call that raises.
ScorerCalls(place_reviews, embedder) ==
    LET with_content == SelectSeq(place_reviews, HasContent)
        called == IF embedder.raising /\ embedder.attribute_names # Absent
                     /\ with_content # <<>>
                  THEN <<with_content[1]>> ELSE with_content
    IN  {<<"embedder", Get(called[k].text, T_EMPTY)>> : k \in DOMAIN called}

\* Whether a call of get_review_attribute_scores in that loop raises.
ScorerRaises(place_reviews, embedder) ==
    /\ embedder.raising
    /\ embedder.attribute_names # Absent
    /\ \E k \in DOMAIN place_reviews : HasContent(place_reviews[k])

\* Mutant: the sums are divided by the number of all reviews.
profile_over_all_reviews(place_reviews, embedder, attributes) ==
    IF place_reviews = <<>>
    THEN [attr \in Range(attributes) |-> QZero]
    ELSE [attr \in Range(attributes) |->
             QDiv(AttributeSum(place_reviews, attr, embedder),
                  QInt(Len(place_reviews)))]

\* Mutant: the profile has the keys of the sums, the names the scorer
\* returned, not the predefined attributes.
profile_over_scorer_names(place_reviews, embedder, attributes) ==
    LET review_count_with_content == Len(SelectSeq(place_reviews, HasContent))
        names == IF embedder.attribute_names = Absent THEN {}
                 ELSE Range(embedder.attribute_names[1])
    IN  IF review_count_with_content > 0
        THEN [attr \in names |->
                 QDiv(AttributeSum(place_reviews, attr, embedder),
                      QInt(review_count_with_content))]
        ELSE [attr \in Range(attributes) |-> QZero]

calculate_place_attribute_profile(place_reviews, embedder, attributes) ==
    IF place_reviews = <<>>
    THEN [attr \in Range(attributes) |-> QZero]
    ELSE LET review_count_with_content ==
                 Len(SelectSeq(place_reviews, HasContent))
         IN  IF review_count_with_content > 0
             THEN [attr \in Range(attributes) |->
                     QDiv(AttributeSum(place_reviews, attr, embedder),
                          QInt(review_count_with_content))]
             ELSE [attr \in Range(attributes) |-> QZero]

\* The sum over the predefined attributes of weight times profile value.
RECURSIVE WeightedSum(_, _, _)
WeightedSum(attrs, weights, profile) ==
    IF attrs = <<>> THEN QZero
    ELSE LET attr == Head(attrs)
             user_weight == IF attr \in DOMAIN weights
                            THEN weights[attr] ELSE QZero
             place_attr_score == IF attr \in DOMAIN profile
                                 THEN profile[attr] ELSE QZero
         IN  QAdd(QMul(user_weight, place_attr_score),
                  WeightedSum(Tail(attrs), weights, profile))

\* Mutant: the guard tests `!= 0`, so a negative sum is normalized too.
preference_score_nonzero_guard(user_preferences, place_attribute_profile, attributes) ==
    LET total_user_weight == SumValues(user_preferences)
    IN  IF total_user_weight # QZero
        THEN WeightedSum(attributes,
                         [attr \in DOMAIN user_preferences |->
                            QDiv(user_preferences[attr], total_user_weight)],
                         place_attribute_profile)
        ELSE QZero

\* Mutant: the raw weights are used, not divided by their sum.
preference_score_unnormalized(user_preferences, place_attribute_profile, attributes) ==
    IF QLt(QZero, SumValues(user_preferences))
    THEN WeightedSum(attributes, user_preferences,
                     place_attribute_profile)
    ELSE QZero

calculate_preference_score(user_preferences, place_attribute_profile, attributes) ==
    LET total_user_weight == SumValues(user_preferences)
    IN  IF QLt(QZero, total_user_weight)
        THEN LET normalized_user_preferences ==
                     [attr \in DOMAIN user_preferences |->
                        QDiv(user_preferences[attr], total_user_weight)]
             IN  WeightedSum(attributes,
                             normalized_user_preferences,
                             place_attribute_profile)
        ELSE QZero

\* Great-circle distance in km of two positions on the meridian.
Distance(a, b) == QInt(Abs(a - b))

\* The default of _calculate_proximity_score's max_distance_km.
DefaultMaxDistanceKm == 10

\* Mutant: no cutoff beyond max_distance_km.
proximity_score_no_cutoff(user_coords, place_coords, max_distance_km) ==
    QSub(QOne, QDiv(Distance(user_coords, place_coords), QInt(max_distance_km)))

\* Mutant: the score grows with the distance, `distance / max_distance_km`.
proximity_score_inverted(user_coords, place_coords, max_distance_km) ==
    LET distance == Distance(user_coords, place_coords)
    IN  IF QLt(QInt(max_distance_km), distance) THEN QZero
        ELSE QDiv(distance, QInt(max_distance_km))

_calculate_proximity_score(user_coords, place_coords, max_distance_km) ==
    LET distance == Distance(user_coords, place_coords)
    IN  IF QLt(QInt(max_distance_km), distance) THEN QZero
        ELSE QSub(QOne, QDiv(distance, QInt(max_distance_km)))

\* Mutant: the difference is taken without abs().
budget_score_signed_difference(user_budget, place_budget) ==
    LET max_budget_diff == QInt(3)
        diff == QInt(user_budget - place_budget)
    IN  QSub(QOne, QDiv(diff, max_budget_diff))

\* Mutant: the score is kept in [0, 1], `max(0.0, ...)`.
budget_score_clamped(user_budget, place_budget) ==
    LET max_budget_diff == QInt(3)
        diff == QInt(Abs(user_budget - place_budget))
        score == QSub(QOne, QDiv(diff, max_budget_diff))
    IN  IF QLt(score, QZero) THEN QZero ELSE score

_calculate_budget_score(user_budget, place_budget) ==
    LET max_budget_diff == QInt(3)
        diff == QInt(Abs(user_budget - place_budget))
    IN  QSub(QOne, QDiv(diff, max_budget_diff))

\* Mutant: no neutral value for an empty list, the sum (0) is returned.
aggregated_sentiment_zero_when_empty(reviews_with_sentiment) ==
    IF reviews_with_sentiment = <<>> THEN QZero
    ELSE QDiv(QSum([k \in DOMAIN reviews_with_sentiment |->
                      Get(reviews_with_sentiment[k].sentiment_score, QHalf)]),
              QInt(Len(reviews_with_sentiment)))

_calculate_aggregated_sentiment(reviews_with_sentiment) ==
    IF reviews_with_sentiment = <<>> THEN QHalf
    ELSE LET total_score ==
                 QSum([k \in DOMAIN reviews_with_sentiment |->
                         Get(reviews_with_sentiment[k].sentiment_score, QHalf)])
         IN  QDiv(total_score, QInt(Len(reviews_with_sentiment)))

\* Mutant: the proximity term is subtracted.
weighted_formula_proximity_penalty(sentiment_score, preference_score, proximity_score, budget_score) ==
    QAdd(QSub(QAdd(QMul(sentiment_score, Q(25, 100)),
                   QMul(preference_score, Q(30, 100))),
              QMul(proximity_score, Q(30, 100))),
         QMul(budget_score, Q(15, 100)))

\* The weighted formula of calculate_final_score, lines 133-138.
WeightedFormula(sentiment_score, preference_score, proximity_score, budget_score) ==
    QAdd(QAdd(QAdd(QMul(sentiment_score, Q(25, 100)),
                   QMul(preference_score, Q(30, 100))),
              QMul(proximity_score, Q(30, 100))),
         QMul(budget_score, Q(15, 100)))

\* Mutant: the components are rounded before they are combined.
BreakdownRoundedFirst(sentiment_score, preference_score, proximity_score, budget_score) ==
    [final_score |-> RoundDiv(25 * Round4(sentiment_score)
                                + 30 * Round4(preference_score)
                                + 30 * Round4(proximity_score)
                                + 15 * Round4(budget_score), 100),
     sentiment_score |-> Round4(sentiment_score),
     preference_score |-> Round4(preference_score),
     proximity_score |-> Round4(proximity_score),
     budget_score |-> Round4(budget_score)]

\* The dictionary calculate_final_score returns, lines 140-146.
Breakdown(sentiment_score, preference_score, proximity_score, budget_score) ==
    [final_score |-> Round4(WeightedFormula(sentiment_score, preference_score,
                                            proximity_score, budget_score)),
     sentiment_score |-> Round4(sentiment_score),
     preference_score |-> Round4(preference_score),
     proximity_score |-> Round4(proximity_score),
     budget_score |-> Round4(budget_score)]

\* calculate_final_score on one place: the exception it ends in ("none" when
\* it returns), the dictionary it returns, the place's review list as the
\* call leaves it (analyze_reviews writes to the reviews themselves), and the
\* collaborator calls it made.
calculate_final_score(place_data, user_data, embedder, sentiment_analyzer, attributes) ==
    IF place_data.reviews = Absent
    THEN [exc |-> "KeyError", details |-> Absent, reviews |-> Absent,
          invoked |-> {}]
    ELSE
    LET reviews == place_data.reviews[1]
        pipelines == sentiment_analyzer.pipelines
        failed_at == FirstRaising(sentiment_analyzer, reviews)
    IN  IF failed_at # 0
        THEN [exc |-> "RuntimeError", details |-> Absent,
              reviews |-> Some([k \in DOMAIN reviews |->
                                  IF k < failed_at
                                  THEN AnalyzeReview(pipelines, reviews[k])
                                  ELSE reviews[k]]),
              invoked |-> PipelineCalls(pipelines, reviews, failed_at)]
        ELSE
        LET reviews_with_sentiment == analyze_reviews(pipelines, reviews)
            sentiment_score == _calculate_aggregated_sentiment(reviews_with_sentiment)
            invoked == PipelineCalls(pipelines, reviews, Len(reviews))
                           \cup ScorerCalls(reviews_with_sentiment, embedder)
        IN  IF ScorerRaises(reviews_with_sentiment, embedder)
            THEN [exc |-> "RuntimeError", details |-> Absent,
                  reviews |-> Some(reviews_with_sentiment), invoked |-> invoked]
            ELSE
            LET place_profile ==
                    calculate_place_attribute_profile(reviews_with_sentiment,
                                                      embedder, attributes)
                preference_score ==
                    calculate_preference_score(user_data.preferences,
                                               place_profile, attributes)
            IN  IF place_data.coords = Absent \/ place_data.budget = Absent
                THEN [exc |-> "KeyError", details |-> Absent,
                      reviews |-> Some(reviews_with_sentiment),
                      invoked |-> invoked]
                ELSE
                LET proximity_score ==
                        _calculate_proximity_score(user_data.coords,
                            place_data.coords[1], DefaultMaxDistanceKm)
                    budget_score ==
                        _calculate_budget_score(user_data.budget,
                                                place_data.budget[1])
                IN  [exc |-> "none",
                     details |-> Some(Breakdown(sentiment_score, preference_score,
                                                proximity_score, budget_score)),
                     reviews |-> Some(reviews_with_sentiment),
                     invoked |-> invoked]

\* ------------------------------------------------------------ sorting
\* Mutant: x goes before the elements whose key equals its own.
RECURSIVE InsertDescendingBeforeTies(_, _, _)
InsertDescendingBeforeTies(sorted, x, key) ==
    IF sorted = <<>> THEN <<x>>
    ELSE IF key[Head(sorted)] > key[x]
         THEN <<Head(sorted)>> \o InsertDescendingBeforeTies(Tail(sorted), x, key)
         ELSE <<x>> \o sorted

\* One step of a stable descending sort: x goes after every element whose
\* key is greater than or equal to its own.
RECURSIVE InsertDescending(_, _, _)
InsertDescending(sorted, x, key) ==
    IF sorted = <<>> THEN <<x>>
    ELSE IF key[Head(sorted)] >= key[x]
         THEN <<Head(sorted)>> \o InsertDescending(Tail(sorted), x, key)
         ELSE <<x>> \o sorted

\* Mutant: one item per key is kept (the items collected in a dictionary by
\* score before sorting).
RECURSIVE sorted_reverse_one_per_key(_, _)
sorted_reverse_one_per_key(items, key) ==
    IF items = <<>> THEN <<>>
    ELSE LET rest == sorted_reverse_one_per_key(SubSeq(items, 1, Len(items) - 1), key)
             x == items[Len(items)]
         IN  IF \E k \in DOMAIN rest : key[rest[k]] = key[x] THEN rest
             ELSE InsertDescending(rest, x, key)

\* Mutant: reverse=True is left out, the sort is ascending.
RECURSIVE InsertAscending(_, _, _)
InsertAscending(sorted, x, key) ==
    IF sorted = <<>> THEN <<x>>
    ELSE IF key[Head(sorted)] <= key[x]
         THEN <<Head(sorted)>> \o InsertAscending(Tail(sorted), x, key)
         ELSE <<x>> \o sorted

RECURSIVE sorted_ascending(_, _)
sorted_ascending(items, key) ==
    IF items = <<>> THEN <<>>
    ELSE InsertAscending(sorted_ascending(SubSeq(items, 1, Len(items) - 1), key),
                         items[Len(items)], key)

\* sorted(items, key=..., reverse=True): descending by key, and stable (items
\* with equal keys keep the order they have in `items`).
RECURSIVE sorted_reverse(_, _)
sorted_reverse(items, key) ==
    IF items = <<>> THEN <<>>
    ELSE InsertDescending(sorted_reverse(SubSeq(items, 1, Len(items) - 1), key),
                          items[Len(items)], key)

\* ------------------------------------------------------------- inputs
Review(text) == [text |-> text, sentiment_score |-> Absent]

\* A review dictionary as loaded: no 'text' key, text None, or a string.
ReviewKinds == {Review(Absent), Review(Some(None))} \cup {Review(Some(t)) : t \in Strings}

\* The kinds in an order that lets a blank review stand before and after
\* one with content.
ReviewKindList ==
    <<Review(Some(T_EN_A)), Review(Some(T_SPACES)), Review(Some(T_AR)),
      Review(Absent), Review(Some(T_EN_B)), Review(Some(None)),
      Review(Some(T_MIXED)), Review(Some(T_EMPTY))>>

\* The review lists of up to MaxReviews reviews, one for every choice of
\* reviews with repetition (one list for all its reorderings).
ReviewLists ==
    UNION {{[j \in 1..k |-> ReviewKindList[f[j]]] :
               f \in {g \in [1..k -> DOMAIN ReviewKindList] :
                         \A j \in 1..(k - 1) : g[j] <= g[j + 1]}} :
           k \in 0..MaxReviews}

Place(name, address, latitude, coords, budget, budget_range, reviews) ==
    [name |-> name, address |-> address, latitude |-> latitude,
     coords |-> coords, budget |-> budget, budget_range |-> budget_range,
     reviews |-> reviews, scoring_details |-> Absent]

\* A place as cli.py writes one: reviews, budget and coords all there.
FullPlace(reviews, budget, pos) ==
    Place("The Grand Cafe", <<"cairo">>, Some(pos), Some(pos), Some(budget), "mid",
          Some(reviews))

\* The place records that lists of several places are made of.
PlacePool ==
    {FullPlace(<<Review(Some(T_EN_A))>>, 2, 1),
     Place("Grand Cafe II", <<"new", "cairo">>, Some(1), Some(1), Some(2), "mid",
           Some(<<Review(Some(T_EN_A))>>)),
     Place("Quiet Corner Books", <<"cairo">>, Some(3), Absent, Absent, "low",
           Some(<<Review(Some(T_EN_B))>>)),
     Place("Uptown Lounge", <<"alexandria">>, Some(180), Some(180), Some(3),
           "expensive", Some(<<>>)),
     Place("Nile View", <<"cairo">>, Some(8), Some(8), Some(0), "low",
           Some(<<Review(Some(T_AR)), Review(Some(T_SPACES))>>))}

AttributeNames == Range(predefined_attributes) \cup {OtherAttribute}

\* Every preference mapping over the attribute names with integer weights.
WidePreferences ==
    UNION {[keys -> {QInt(w) : w \in -1..MaxWeight}] : keys \in SUBSET AttributeNames}

Prefs1 == [a \in {"Cozy"} |-> QOne]
Prefs2 == [a \in {"Cozy", "Trendy"} |-> IF a = "Cozy" THEN Q(3, 5) ELSE Q(2, 5)]
Prefs3 == [a \in {"Trendy", OtherAttribute} |-> QInt(2)]
Prefs4 == [a \in {"Cozy", OtherAttribute} |-> IF a = "Cozy" THEN QInt(2) ELSE QOne]

BudgetLevels == 0..3
Positions == {0, 1, 5, 10, 11}
BothPipelines == {"en", "ar"}

\* A direct call of rank_places, as cli.py makes it.
CliRequest(preferences, budget) ==
    [entry |-> "cli", preferences |-> preferences, budget |-> budget, coords |-> 0,
     city |-> "", max_distance |-> Absent, place_name |-> "",
     predefined_attributes |-> predefined_attributes]

\* A call of rank_places with a list of attributes of the caller's own.
RankRequest(preferences, budget, attributes) ==
    [CliRequest(preferences, budget) EXCEPT !.predefined_attributes = attributes]

\* The JSON payload of a POST to /api/recommend.
WebRequest(preferences, city, max_distance, place_name) ==
    [entry |-> "web", preferences |-> preferences, budget |-> 2, coords |-> 0,
     city |-> city, max_distance |-> max_distance, place_name |-> place_name,
     predefined_attributes |-> predefined_attributes]

\* A program ready to rank: the embedder holds the attributes' embeddings
\* and no collaborator call raises.
Scenario(places, pipelines, request) ==
    [places |-> places, pipelines |-> pipelines, request |-> request,
     embedder |-> Embedder(Some(request.predefined_attributes), FALSE),
     raising |-> {}, start |-> "idle"]

\* One place, every preference mapping.
PreferenceScenarios ==
    {Scenario(<<FullPlace(reviews, 1, 0)>>, BothPipelines, CliRequest(prefs, 1)) :
        reviews \in {<<Review(Some(T_EN_A)), Review(Some(T_EN_B))>>,
                     <<Review(Some(T_AR))>>},
        prefs \in WidePreferences}

\* One place, every review list, the sentiment models loaded or not.
ReviewScenarios ==
    {Scenario(<<FullPlace(reviews, 1, 5)>>, pipelines, CliRequest(prefs, 3)) :
        reviews \in ReviewLists, pipelines \in {{}, BothPipelines},
        prefs \in {Prefs1, Prefs4}}

\* One place, every budget pair and position.
GeoBudgetScenarios ==
    {Scenario(<<FullPlace(reviews, pb[1], pos)>>, pipelines, CliRequest(Prefs2, pb[2])) :
        reviews \in {<<>>, <<Review(Some(T_EN_A))>>},
        pb \in BudgetLevels \X BudgetLevels, pos \in Positions,
        pipelines \in {{}, BothPipelines}}

\* How far beyond the levels 0..3 the budgets of a call reach.
BudgetReach == 3

\* The budgets a caller may pass: any integers.
WideBudgets == (0 - BudgetReach)..(3 + BudgetReach)

\* One place, the user's budget or the place's outside 0..3.
WideBudgetScenarios ==
    {Scenario(<<FullPlace(<<Review(Some(T_EN_A))>>, pb[1], 1)>>, BothPipelines,
              CliRequest(Prefs2, pb[2])) :
        pb \in (WideBudgets \X WideBudgets) \ (BudgetLevels \X BudgetLevels)}

PlaceLists == {<<>>} \cup UNION {[1..k -> PlacePool] : k \in 2..MaxPlaces}

\* Lists of several places, ranked by a direct call.
ListScenarios ==
    {Scenario(places, pipelines, CliRequest(prefs, 2)) :
        places \in PlaceLists, pipelines \in {{}, BothPipelines},
        prefs \in {Prefs1, Prefs2}}

\* Lists of several places, asked for over HTTP.
WebScenarios ==
    {Scenario(places, BothPipelines, WebRequest(prefs, rq[1], rq[2], rq[3])) :
        places \in PlaceLists, prefs \in {Prefs2, Prefs3},
        rq \in {"", "cairo", "giza"} \X {Absent, Some(5), Some(-5)}
                 \X {"", "nile view"}}

\* One place, an embedder whose attribute names are not those rank_places
\* is given, or that holds none.
EmbedderScenarios ==
    {[Scenario(<<FullPlace(reviews, 1, 0)>>, BothPipelines, CliRequest(prefs, 1))
         EXCEPT !.embedder = e] :
        reviews \in {<<>>, <<Review(Some(T_SPACES))>>,
                     <<Review(Some(T_AR)), Review(Some(T_SPACES))>>,
                     <<Review(Some(T_EN_A)), Review(Some(T_AR))>>},
        prefs \in {Prefs2, Prefs4},
        e \in {Embedder(Absent, FALSE),
               Embedder(Some(<<"Cozy", OtherAttribute>>), FALSE),
               Embedder(Some(<<"Trendy">>), FALSE)}}

\* Lists of several places, one collaborator raising when it is called.
FaultScenarios ==
    {[Scenario(places, BothPipelines, CliRequest(Prefs2, 2))
         EXCEPT !.embedder = Embedder(Some(predefined_attributes), f[1]),
                !.raising = f[2]] :
        places \in PlaceLists,
        f \in {<<TRUE, {}>>, <<FALSE, {"en"}>>, <<FALSE, {"ar"}>>}}

\* Programs started with a list of attributes, empty or not: from their
\* setup, or by a call of rank_places whose embedder was set up apart.
ConfigScenarios ==
    {[Scenario(places, BothPipelines, request)
         EXCEPT !.embedder = Embedder(Absent, FALSE), !.start = "setup"] :
        places \in {<<>>, <<FullPlace(<<Review(Some(T_EN_A))>>, 2, 1)>>},
        request \in {RankRequest(Prefs2, 2, <<>>), CliRequest(Prefs2, 2),
                     [WebRequest(Prefs2, "", Absent, "")
                         EXCEPT !.predefined_attributes = <<>>]}}
    \cup
    {[Scenario(places, BothPipelines, RankRequest(prefs, 2, <<>>))
         EXCEPT !.embedder = e] :
        places \in {<<FullPlace(<<Review(Some(T_EN_A))>>, 2, 1)>>,
                    <<FullPlace(<<Review(Some(T_EN_A))>>, 2, 1),
                      FullPlace(<<Review(Some(T_AR))>>, 0, 8)>>},
        prefs \in {Prefs1, Prefs2},
        e \in {Embedder(Absent, FALSE), Embedder(Some(predefined_attributes), FALSE)}}

\* The families of scenarios a run starts from.
Scenarios ==
    <<PreferenceScenarios, ReviewScenarios, GeoBudgetScenarios, ListScenarios,
      WebScenarios, EmbedderScenarios, FaultScenarios, ConfigScenarios,
      WideBudgetScenarios>>

\* -------------------------------------------------------------- state
VARIABLES
    places_data,    \* the place records, by position (web_ui.py's places_data,
                    \* cli.py's places_to_rank); a record is shared by every
                    \* list that holds its position
    pipelines,      \* SentimentAnalyzer.pipelines: {} when loading failed
    raising,        \* the languages whose pipeline raises when called
    embedder,       \* the PreferenceEmbedder
    invoked,        \* the collaborator calls made so far, <<callee, text>>
    request,        \* the call or HTTP request being served
    pc,             \* "setup", "idle", "scoring", "returned", "raised",
                    \* "responded"
    user_data,      \* rank_places' user_data
    places_list,    \* rank_places' places_list, as positions in places_data
    scored_places,  \* rank_places' scored_places
    sorted_places,  \* the list rank_places returned
    exc,            \* the exception rank_places ended in, "none" otherwise
    response,       \* the HTTP response, status 0 while there is none
    run,            \* how many calls of rank_places have been made
    called_with,    \* the place records and the list, as they were when the
                    \* call of rank_places being served was made
    previous,       \* the ranking and the breakdowns the call of rank_places
                    \* before this one returned
    collector       \* collect_data: its locals and the files it has written

vars == <<places_data, pipelines, raising, embedder, invoked, request, pc,
          user_data, places_list, scored_places, sorted_places, exc, response,
          run, called_with, previous, collector>>

NoUser == [preferences |-> <<>>, budget |-> 0, coords |-> 0]
NoResponse == [status |-> 0, success |-> FALSE, error |-> "", recommendations |-> <<>>]
NoCall == [places |-> <<>>, list |-> <<>>]
NoRanking == [how |-> "", ranked |-> <<>>, details |-> <<>>]
\* collect_data has not been called.
NoCollector ==
    [pc |-> "off", rows |-> <<>>, max_places |-> Absent, save_interval |-> 50,
     idx |-> 0, places_list |-> <<>>, all_raw_reviews |-> <<>>,
     failed_addresses |-> <<>>, files |-> <<>>]

Init ==
    \E family \in DOMAIN Scenarios : \E sc \in Scenarios[family] :
        /\ places_data = sc.places
        /\ pipelines = sc.pipelines
        /\ raising = sc.raising
        /\ embedder = sc.embedder
        /\ invoked = {}
        /\ request = sc.request
        /\ pc = sc.start
        /\ user_data = NoUser
        /\ places_list = <<>>
        /\ scored_places = <<>>
        /\ sorted_places = <<>>
        /\ exc = "none"
        /\ response = NoResponse
        /\ run = 0
        /\ called_with = NoCall
        /\ previous = NoRanking
        /\ collector = NoCollector

\* ----------------------------------------------------------- rank_places
\* The keyword parameters of rank_places.
RankPlacesParameters ==
    {"user_data", "places_list", "embedder", "sentiment_analyzer",
     "predefined_attributes"}

\* The key of the sort: p['scoring_details']['final_score'] by position.
FinalScoreKey(places) ==
    [i \in DOMAIN places |->
        IF places[i].scoring_details = Absent THEN 0
        ELSE places[i].scoring_details[1].final_score]

\* The response get_recommendations builds from the ranked places.
Recommendations(places, ranked) ==
    [k \in DOMAIN ranked |->
        [name |-> places[ranked[k]].name,
         scoring_details |-> places[ranked[k]].scoring_details]]

ErrorResponse(status, message) ==
    [status |-> status, success |-> FALSE, error |-> message, recommendations |-> <<>>]

\* The setup of cli.py (lines 25-33) and of web_ui.py (initialize_models):
\* the attributes are embedded.  cli.py ends in the ValueError of an empty
\* list; initialize_models catches it and goes on with a mock embedder that
\* holds the list.
InitializeModels ==
    /\ pc = "setup"
    /\ LET r == generate_attribute_embeddings(embedder,
                                              request.predefined_attributes)
       IN  IF r.exc = "none"
           THEN /\ embedder' = r.embedder
                /\ pc' = "idle"
                /\ UNCHANGED exc
           ELSE IF request.entry = "web"
           THEN /\ embedder' = Embedder(Some(request.predefined_attributes), FALSE)
                /\ pc' = "idle"
                /\ UNCHANGED exc
           ELSE /\ exc' = r.exc
                /\ pc' = "raised"
                /\ UNCHANGED embedder
    /\ UNCHANGED <<places_data, pipelines, raising, invoked, request, user_data,
                   places_list, scored_places, sorted_places, response,
                   run, called_with, previous, collector>>

\* cli.py calls rank_places on its whole list of places.
CallRankPlaces ==
    /\ pc = "idle"
    /\ request.entry = "cli"
    /\ user_data' = [preferences |-> request.preferences,
                     budget |-> request.budget, coords |-> request.coords]
    /\ places_list' = [k \in 1..Len(places_data) |-> k]
    /\ scored_places' = <<>>
    /\ pc' = "scoring"
    /\ run' = run + 1
    /\ called_with' = [places |-> places_data, list |-> places_list']
    /\ UNCHANGED <<places_data, pipelines, raising, embedder, invoked, request,
                   sorted_places, exc, response, previous, collector>>

\* One turn of rank_places' loop with the analyzer the call was given: score
\* the next place, attach the details.
ScoreWith(sentiment_analyzer) ==
    /\ pc = "scoring"
    /\ Len(scored_places) < Len(places_list)
    /\ LET i == places_list[Len(scored_places) + 1]
           place == places_data[i]
           r == calculate_final_score(place, user_data, embedder,
                                      sentiment_analyzer,
                                      request.predefined_attributes)
       IN  /\ invoked' = invoked \cup r.invoked
           /\ IF r.exc = "none"
              THEN /\ places_data' =
                         [places_data EXCEPT ![i] =
                             [place EXCEPT !.reviews = r.reviews,
                                           !.scoring_details = r.details]]
                   /\ scored_places' = Append(scored_places, i)
                   /\ UNCHANGED <<pc, exc, response>>
              ELSE /\ places_data' =
                         [places_data EXCEPT ![i] =
                             [place EXCEPT !.reviews =
                                 IF r.reviews = Absent THEN place.reviews
                                 ELSE r.reviews]]
                   /\ exc' = r.exc
                   /\ pc' = IF request.entry = "web" THEN "responded" ELSE "raised"
                   /\ response' = IF request.entry = "web"
                                  THEN ErrorResponse(500, r.exc) ELSE response
                   /\ UNCHANGED scored_places
    /\ UNCHANGED <<pipelines, raising, embedder, request, user_data, places_list,
                   sorted_places, run, called_with, previous, collector>>

\* Mutant: the analyzer has lost its models once a ranking has been returned.
ScorePlaceModelsDropped ==
    ScoreWith(SentimentAnalyzer(IF run = 1 THEN pipelines ELSE {}, raising))

\* Mutant: the analyzer's models serve the first place of a call only.
ScorePlaceFirstOnly ==
    ScoreWith(SentimentAnalyzer(IF scored_places = <<>> THEN pipelines ELSE {},
                                raising))

\* The loop's turn in a call made with the program's analyzer.
ScorePlace == ScoreWith(SentimentAnalyzer(pipelines, raising))

\* Mutant: the list is sorted in place, `places_list.sort(...)`, and returned.
SortPlacesInPlace ==
    /\ pc = "scoring"
    /\ Len(scored_places) = Len(places_list)
    /\ sorted_places' = sorted_reverse(scored_places, FinalScoreKey(places_data))
    /\ places_list' = sorted_places'
    /\ pc' = IF request.entry = "web" THEN "responded" ELSE "returned"
    /\ response' = IF request.entry = "web"
                   THEN [status |-> 200, success |-> TRUE, error |-> "",
                         recommendations |->
                            Recommendations(places_data, sorted_places')]
                   ELSE response
    /\ UNCHANGED <<places_data, pipelines, raising, embedder, invoked, request,
                   user_data, scored_places, exc,
                   run, called_with, previous, collector>>

\* The end of rank_places: sort, return; the web handler then answers.
SortPlaces ==
    /\ pc = "scoring"
    /\ Len(scored_places) = Len(places_list)
    /\ sorted_places' = sorted_reverse(scored_places, FinalScoreKey(places_data))
    /\ pc' = IF request.entry = "web" THEN "responded" ELSE "returned"
    /\ response' = IF request.entry = "web"
                   THEN [status |-> 200, success |-> TRUE, error |-> "",
                         recommendations |->
                            Recommendations(places_data, sorted_places')]
                   ELSE response
    /\ UNCHANGED <<places_data, pipelines, raising, embedder, invoked, request,
                   user_data, places_list, scored_places, exc,
                   run, called_with, previous, collector>>

\* ------------------------------------------------------ /api/recommend
\* str.lower() of the place names.
Lower(name) ==
    CASE name = "The Grand Cafe" -> "the grand cafe"
      [] name = "Grand Cafe II" -> "grand cafe ii"
      [] name = "Quiet Corner Books" -> "quiet corner books"
      [] name = "Uptown Lounge" -> "uptown lounge"
      [] name = "Nile View" -> "nile view"
      [] OTHER -> name

\* The default of the payload's max_distance.
WebDefaultMaxDistance == 50
\* Position of the fallback user location (30.033333, 31.233334).
CairoPos == 0
\* Position of the fallback place location (0.0, 0.0).
NullIslandPos == 4600

budget_map(budget_range) ==
    CASE budget_range = "low" -> 0
      [] budget_range = "average" -> 1
      [] budget_range = "mid" -> 2
      [] budget_range = "high" -> 2
      [] budget_range = "expensive" -> 3
      [] OTHER -> 1

\* Lines 147-149: the payload's weights divided by their sum, when positive.
NormalizedPayloadPreferences(preferences) ==
    LET total_weight == SumValues(preferences)
    IN  IF QLt(QZero, total_weight)
        THEN [k \in DOMAIN preferences |-> QDiv(preferences[k], total_weight)]
        ELSE preferences

\* Lines 152-154: the positions of the places whose address holds the city.
FilterByCity(places, user_city) ==
    LET all == [k \in 1..Len(places) |-> k]
    IN  IF user_city # ""
        THEN SelectSeq(all, LAMBDA i : user_city \in Range(places[i].address))
        ELSE all

\* Lines 159-166: the user's location.
UserCoords(places, filtered, place_name) ==
    LET matches == SelectSeq(filtered,
                       LAMBDA i : Lower(places[i].name) = place_name)
    IN  IF place_name # "" /\ matches # <<>>
           /\ places[matches[1]].latitude # Absent
        THEN places[matches[1]].latitude[1]
        ELSE Get(places[filtered[1]].latitude, CairoPos)

\* Lines 176-187: coords and budget written to a place that lacks them.
WithCoordsAndBudget(p) ==
    [p EXCEPT !.coords = IF p.coords = Absent
                         THEN IF p.latitude # Absent THEN p.latitude
                              ELSE Some(NullIslandPos)
                         ELSE p.coords,
              !.budget = IF p.budget = Absent
                         THEN Some(budget_map(p.budget_range))
                         ELSE p.budget]

\* Lines 190-193: the positions of the places within max_distance.
FilterByDistance(places, filtered, user_coords, max_distance) ==
    SelectSeq(filtered,
        LAMBDA i : QLe(Distance(user_coords, places[i].coords[1]),
                       QInt(max_distance)))

\* The keyword arguments of the handler's call of rank_places, lines 203-210.
WebCallKeywords ==
    {"user_data", "places_list", "embedder", "sentiment_analyzer",
     "predefined_attributes", "max_distance_km"}

\* The places left after both filters of a web request (those the handler
\* hands to rank_places), as positions in `places`.
RemainingPlaces(places, req) ==
    LET by_city == FilterByCity(places, req.city)
    IN  IF by_city = <<>> THEN <<>>
        ELSE LET fixed == [k \in DOMAIN places |->
                              IF k \in Range(by_city)
                              THEN WithCoordsAndBudget(places[k]) ELSE places[k]]
             IN  FilterByDistance(fixed, by_city,
                     UserCoords(places, by_city, req.place_name),
                     Get(req.max_distance, WebDefaultMaxDistance))

\* POST /api/recommend, up to its call of rank_places.
get_recommendations ==
    /\ pc = "idle"
    /\ request.entry = "web"
    /\ LET preferences == NormalizedPayloadPreferences(request.preferences)
           max_distance == Get(request.max_distance, WebDefaultMaxDistance)
           by_city == FilterByCity(places_data, request.city)
       IN  IF by_city = <<>>
           THEN /\ response' = ErrorResponse(404, "No places found for the specified city.")
                /\ pc' = "responded"
                /\ UNCHANGED <<places_data, user_data, places_list, scored_places,
                               exc, run, called_with>>
           ELSE
           LET user_coords == UserCoords(places_data, by_city, request.place_name)
               fixed == [k \in DOMAIN places_data |->
                            IF k \in Range(by_city)
                            THEN WithCoordsAndBudget(places_data[k])
                            ELSE places_data[k]]
               filtered_places ==
                   FilterByDistance(fixed, by_city, user_coords, max_distance)
           IN  /\ places_data' = fixed
               /\ IF filtered_places = <<>>
                  THEN /\ response' = ErrorResponse(404,
                              "No places found within the specified distance.")
                       /\ pc' = "responded"
                       /\ UNCHANGED <<user_data, places_list, scored_places, exc,
                                      run, called_with>>
                  ELSE IF WebCallKeywords \subseteq RankPlacesParameters
                  THEN /\ user_data' = [preferences |-> preferences,
                                        budget |-> request.budget,
                                        coords |-> user_coords]
                       /\ places_list' = filtered_places
                       /\ scored_places' = <<>>
                       /\ pc' = "scoring"
                       /\ run' = run + 1
                       /\ called_with' = [places |-> fixed,
                                          list |-> filtered_places]
                       /\ UNCHANGED <<exc, response>>
                  ELSE /\ exc' = "TypeError"
                       /\ response' = ErrorResponse(500, "TypeError")
                       /\ pc' = "responded"
                       /\ UNCHANGED <<user_data, places_list, scored_places,
                                      run, called_with>>
    /\ UNCHANGED <<pipelines, raising, embedder, invoked, request, sorted_places,
                   previous, collector>>

Next ==
    \/ InitializeModels
    \/ CallRankPlaces
    \/ ScorePlace
    \/ SortPlaces
    \/ get_recommendations

Spec == Init /\ [][Next]_vars

\* ------------------------------------------------- rank_places, called again
\* The most calls of rank_places a caller makes.
MaxRuns == 2

\* One place with up to two reviews of every kind, and lists of places.
RerunScenarios ==
    <<{Scenario(<<FullPlace(reviews, 1, 5)>>, loaded, CliRequest(Prefs4, 3)) :
          reviews \in UNION {[1..k -> ReviewKinds] : k \in 0..2},
          loaded \in {{}, BothPipelines}},
      ListScenarios>>

RerunInit ==
    \E family \in DOMAIN RerunScenarios : \E sc \in RerunScenarios[family] :
        /\ places_data = sc.places
        /\ pipelines = sc.pipelines
        /\ raising = sc.raising
        /\ embedder = sc.embedder
        /\ invoked = {}
        /\ request = sc.request
        /\ pc = sc.start
        /\ user_data = NoUser
        /\ places_list = <<>>
        /\ scored_places = <<>>
        /\ sorted_places = <<>>
        /\ exc = "none"
        /\ response = NoResponse
        /\ run = 0
        /\ called_with = NoCall
        /\ previous = NoRanking
        /\ collector = NoCollector

\* What the call that has returned leaves to compare the next one with.
Returned(how) ==
    [how |-> how, ranked |-> sorted_places,
     details |-> [i \in DOMAIN places_data |-> places_data[i].scoring_details]]

\* The caller calls rank_places again, with the same user data and
\* collaborators, on the list the call before returned: the same records,
\* with what that call wrote to them.
RankAgain ==
    /\ pc = "returned"
    /\ run < MaxRuns
    /\ previous' = Returned("returned list")
    /\ places_list' = sorted_places
    /\ called_with' = [places |-> places_data, list |-> sorted_places]
    /\ scored_places' = <<>>
    /\ run' = run + 1
    /\ pc' = "scoring"
    /\ UNCHANGED <<places_data, pipelines, raising, embedder, invoked, request,
                   user_data, sorted_places, exc, response, collector>>

\* The caller calls rank_places again, with the same user data and
\* collaborators, on records and a list equal to those of the call before.
RankEqualInputs ==
    /\ pc = "returned"
    /\ run < MaxRuns
    /\ previous' = Returned("equal inputs")
    /\ places_data' = called_with.places
    /\ places_list' = called_with.list
    /\ scored_places' = <<>>
    /\ run' = run + 1
    /\ pc' = "scoring"
    /\ UNCHANGED <<pipelines, raising, embedder, invoked, request, user_data,
                   sorted_places, exc, response, called_with, collector>>

RerunNext ==
    \/ CallRankPlaces
    \/ ScorePlace
    \/ SortPlaces
    \/ RankAgain
    \/ RankEqualInputs

RerunSpec == RerunInit /\ [][RerunNext]_vars

\* ------------------------------------------------------------ collect_data
\* The most rows of the input CSV, reviews the API returns for a place, and
\* the largest save_interval.
MaxRows == 3
MaxRowReviews == 2
MaxInterval == 3

\* A row of the CSV with what the API answers for it: the place_id of its
\* geocoding ("N/A" when there is no result or the request fails) and the
\* number of reviews of its details.
Row(place_id, reviews) == [place_id |-> place_id, reviews |-> reviews]

RowKinds == {Row("N/A", 0)} \cup {Row("id", n) : n \in 0..MaxRowReviews}

\* The place_id _geocode_place returns for the row's address.
_geocode_place(row) == row.place_id

\* The reviews _get_place_details_and_reviews returns, as review indexes.
_get_place_details_and_reviews(row) ==
    IF row.place_id = "N/A" THEN <<>> ELSE [i \in 1..row.reviews |-> i]

\* The Place object made of row idx, and the Review objects of its reviews.
CollectedPlace(idx, place_id) == [name |-> idx, place_id |-> place_id]
RawReview(idx, i) == [place_name |-> idx, review_index |-> i]

\* df.head(max_places)
head(rows, max_places) ==
    IF max_places = Absent \/ max_places[1] >= Len(rows) THEN rows
    ELSE SubSeq(rows, 1, max_places[1])

\* A collector about to run collect_data(max_places, save_interval).
Collector(rows, max_places, save_interval) ==
    [pc |-> "ready", rows |-> rows, max_places |-> max_places,
     save_interval |-> save_interval, idx |-> 0,
     places_list |-> <<>>, all_raw_reviews |-> <<>>, failed_addresses |-> <<>>,
     files |-> <<>>]

Collectors ==
    {Collector(rows, max_places, save_interval) :
        rows \in UNION {[1..k -> RowKinds] : k \in 0..MaxRows},
        max_places \in {Absent, Some(2)},
        save_interval \in 0..MaxInterval}

CollectInit ==
    /\ collector \in Collectors
    /\ places_data = <<>>
    /\ pipelines = {}
    /\ raising = {}
    /\ embedder = Embedder(Absent, FALSE)
    /\ invoked = {}
    /\ request = CliRequest(Prefs1, 0)
    /\ pc = "idle"
    /\ user_data = NoUser
    /\ places_list = <<>>
    /\ scored_places = <<>>
    /\ sorted_places = <<>>
    /\ exc = "none"
    /\ response = NoResponse
    /\ run = 0
    /\ called_with = NoCall
    /\ previous = NoRanking

ranking_vars ==
    <<places_data, pipelines, raising, embedder, invoked, request, pc, user_data,
      places_list, scored_places, sorted_places, exc, response, run,
      called_with, previous>>

\* Lines 115-123: the CSV is read and cut to max_places rows.
CollectData ==
    /\ collector.pc = "ready"
    /\ collector' = [collector EXCEPT
                        !.pc = "collecting",
                        !.rows = head(collector.rows, collector.max_places)]
    /\ UNCHANGED ranking_vars

\* The files a checkpoint or the final save writes: the places and the
\* reviews collected so far.
Saved(kind, places, reviews) ==
    [kind |-> kind, places |-> places, reviews |-> reviews]

\* One turn of the loop of lines 125-199: the row is geocoded; a row without
\* a place_id is recorded as failed and the loop goes on (`continue`);
\* otherwise its details and reviews are kept, and a checkpoint is written
\* when len(places_list) % save_interval == 0.
ProcessRow ==
    /\ collector.pc = "collecting"
    /\ collector.idx < Len(collector.rows)
    /\ LET idx == collector.idx + 1
           row == collector.rows[idx]
           place_id == _geocode_place(row)
       IN  IF place_id = "N/A"
           THEN collector' = [collector EXCEPT
                    !.idx = idx,
                    !.failed_addresses = Append(@, idx),
                    !.places_list = Append(@, CollectedPlace(idx, "N/A"))]
           ELSE
           LET details == _get_place_details_and_reviews(row)
               places == Append(collector.places_list,
                                CollectedPlace(idx, place_id))
               reviews == collector.all_raw_reviews
                              \o [i \in DOMAIN details |-> RawReview(idx, details[i])]
           IN  IF collector.save_interval = 0
               THEN collector' = [collector EXCEPT
                        !.pc = "ZeroDivisionError",
                        !.idx = idx,
                        !.places_list = places,
                        !.all_raw_reviews = reviews]
               ELSE collector' = [collector EXCEPT
                        !.idx = idx,
                        !.places_list = places,
                        !.all_raw_reviews = reviews,
                        !.files =
                            IF Len(places) % collector.save_interval = 0
                            THEN Append(@, Saved("checkpoint", places, reviews))
                            ELSE @]
    /\ UNCHANGED ranking_vars

\* Lines 201-219: the final files are written and the data returned.
FinalSave ==
    /\ collector.pc = "collecting"
    /\ collector.idx = Len(collector.rows)
    /\ collector' = [collector EXCEPT
                        !.pc = "done",
                        !.files = Append(@, Saved("final", collector.places_list,
                                                  collector.all_raw_reviews))]
    /\ UNCHANGED ranking_vars

CollectNext ==
    \/ CollectData
    \/ ProcessRow
    \/ FinalSave

CollectSpec == CollectInit /\ [][CollectNext]_vars

\* ------------------------------------------------------------- claims
\* How many times x occurs in the sequence.
Occurrences(seq, x) == Cardinality({k \in DOMAIN seq : seq[k] = x})

\* Where x stands in a sequence that holds it once.
IndexOf(seq, x) == CHOOSE k \in DOMAIN seq : seq[k] = x

FinalScoreOf(i) == places_data[i].scoring_details[1].final_score

Scored(i) == places_data[i].scoring_details # Absent

\* The place the last turn of rank_places' loop has scored, if any.  A place
\* is scored once in a run, and neither its record nor user_data changes
\* afterwards: what holds of it here holds of it in every later state.
LastScored ==
    IF pc = "scoring" /\ scored_places # <<>>
    THEN {scored_places[Len(scored_places)]} ELSE {}

\* C1: the list rank_places returns is a permutation of its input list: the
\* same length, and every place record as many times as the input holds it
\* (by identity and by content).
C1_RankedIsPermutation ==
    pc = "returned" =>
        /\ Len(sorted_places) = Len(places_list)
        /\ \A i \in DOMAIN places_data :
               Occurrences(sorted_places, i) = Occurrences(places_list, i)
        /\ \A p \in Range(places_data) :
               Cardinality({k \in DOMAIN sorted_places : places_data[sorted_places[k]] = p})
                 = Cardinality({k \in DOMAIN places_list : places_data[places_list[k]] = p})

\* A ranking of three places, two of them with equal scores, that is not
\* in the order of the input.
C1_Witness ==
    /\ pc = "returned"
    /\ Len(places_list) = 3
    /\ sorted_places # places_list
    /\ \E j, k \in DOMAIN sorted_places :
           j # k /\ FinalScoreOf(sorted_places[j]) = FinalScoreOf(sorted_places[k])

\* C2: along the list rank_places returns, final_score never increases.
C2_NonIncreasing ==
    pc = "returned" =>
        \A k \in 1..(Len(sorted_places) - 1) :
            FinalScoreOf(sorted_places[k]) >= FinalScoreOf(sorted_places[k + 1])

\* A ranking whose input had a lower score before a higher one.
C2_Witness ==
    /\ pc = "returned"
    /\ \E j, k \in DOMAIN places_list :
           j < k /\ FinalScoreOf(places_list[j]) < FinalScoreOf(places_list[k])

\* C3: two places with equal final_score stand in the returned list in the
\* order they have in the input list.
C3_TiesKeepInputOrder ==
    pc = "returned" =>
        \A j, k \in DOMAIN sorted_places :
            (j < k /\ FinalScoreOf(sorted_places[j]) = FinalScoreOf(sorted_places[k]))
                => IndexOf(places_list, sorted_places[j])
                     < IndexOf(places_list, sorted_places[k])

\* A ranking with two different places of equal score, moved by the sort.
C3_Witness ==
    /\ pc = "returned"
    /\ sorted_places # places_list
    /\ \E j, k \in DOMAIN sorted_places :
           /\ j < k
           /\ FinalScoreOf(sorted_places[j]) = FinalScoreOf(sorted_places[k])
           /\ places_data[sorted_places[j]].name # places_data[sorted_places[k]].name

\* Valid inputs of calculate_final_score for place i: budgets in 0..3 and
\* no negative preference weight (the collaborators' scores are in [0,1]).
ValidInputs(i) ==
    /\ user_data.budget \in 0..3
    /\ places_data[i].budget # Absent
    /\ places_data[i].budget[1] \in 0..3
    /\ \A a \in DOMAIN user_data.preferences : QLe(QZero, user_data.preferences[a])

InUnitInterval(units) == units \in 0..10000

\* C4: for valid inputs each of the five scores of a breakdown is in [0,1].
C4_ScoresInUnitInterval ==
    \A i \in DOMAIN places_data :
        (Scored(i) /\ ValidInputs(i)) =>
            LET d == places_data[i].scoring_details[1]
            IN  /\ InUnitInterval(d.sentiment_score)
                /\ InUnitInterval(d.preference_score)
                /\ InUnitInterval(d.proximity_score)
                /\ InUnitInterval(d.budget_score)
                /\ InUnitInterval(d.final_score)

\* A place beyond the cutoff scored for weights that do not sum to 1.
C4_Witness ==
    \E i \in DOMAIN places_data :
        /\ Scored(i) /\ ValidInputs(i)
        /\ QLt(QInt(DefaultMaxDistanceKm),
               Distance(user_data.coords, places_data[i].coords[1]))
        /\ places_data[i].scoring_details[1].proximity_score = 0
        /\ places_data[i].scoring_details[1].final_score > 0

\* The attribute profile of place i, from the state the call left.
ProfileOf(i) ==
    calculate_place_attribute_profile(places_data[i].reviews[1], embedder,
                                      request.predefined_attributes)

\* The unrounded components of place i's score, from the state the call left.
SentimentOf(i) == _calculate_aggregated_sentiment(places_data[i].reviews[1])
PreferenceOf(i) ==
    calculate_preference_score(user_data.preferences, ProfileOf(i),
                               request.predefined_attributes)
ProximityOf(i) ==
    _calculate_proximity_score(user_data.coords, places_data[i].coords[1],
                               DefaultMaxDistanceKm)
BudgetOf(i) == _calculate_budget_score(user_data.budget, places_data[i].budget[1])

\* units/10000 is a multiple of 1/10000 nearest to q.
NearestTo(units, q) == 2 * Abs(units * q[2] - 10000 * q[1]) <= q[2]

\* 0.25 s + 0.30 p + 0.30 x + 0.15 b, exactly.
ExactFinal(i) ==
    LET s == SentimentOf(i)
        p == PreferenceOf(i)
        x == ProximityOf(i)
        b == BudgetOf(i)
    IN  Q(25 * s[1] * p[2] * x[2] * b[2] + 30 * p[1] * s[2] * x[2] * b[2]
            + 30 * x[1] * s[2] * p[2] * b[2] + 15 * b[1] * s[2] * p[2] * x[2],
          100 * s[2] * p[2] * x[2] * b[2])

\* C5: final_score is 0.25 s + 0.30 p + 0.30 x + 0.15 b of the unrounded
\* components, rounded once to 4 decimals; the weights sum to 1; each
\* component returned is its unrounded value rounded to 4 decimals.
C5_WeightedSumRoundedOnce ==
    /\ WeightedFormula(QOne, QOne, QOne, QOne) = QOne
    /\ \A i \in LastScored :
            LET d == places_data[i].scoring_details[1]
            IN  /\ NearestTo(d.final_score, ExactFinal(i))
                /\ NearestTo(d.sentiment_score, SentimentOf(i))
                /\ NearestTo(d.preference_score, PreferenceOf(i))
                /\ NearestTo(d.proximity_score, ProximityOf(i))
                /\ NearestTo(d.budget_score, BudgetOf(i))

\* A breakdown whose final score differs from the one its rounded
\* components would give.
C5_Witness ==
    \E i \in DOMAIN places_data :
        /\ Scored(i)
        /\ LET d == places_data[i].scoring_details[1]
           IN  d.final_score #
                 RoundDiv(25 * d.sentiment_score + 30 * d.preference_score
                            + 30 * d.proximity_score + 15 * d.budget_score, 100)

\* The maximum distance a request supplies to the ranking, if any.
SuppliedMaxDistance ==
    IF request.entry = "web"
    THEN Some(Get(request.max_distance, WebDefaultMaxDistance))
    ELSE Absent

\* C6: rank_places accepts the caller's maximum distance, and every place of
\* the request gets the proximity score computed with that value as the
\* cutoff (with 10 km when the caller supplies none).
C6_MaxDistanceIsCallerSupplied ==
    /\ (request.entry = "web" /\ pc = "responded"
          /\ RemainingPlaces(places_data, request) # <<>>)
         => /\ exc # "TypeError"
            /\ \A i \in Range(RemainingPlaces(places_data, request)) :
                   /\ Scored(i)
                   /\ places_data[i].scoring_details[1].proximity_score =
                        Round4(_calculate_proximity_score(user_data.coords,
                                   places_data[i].coords[1], SuppliedMaxDistance[1]))
    /\ (request.entry = "cli" /\ pc = "returned")
         => \A i \in Range(places_list) :
                places_data[i].scoring_details[1].proximity_score =
                    Round4(_calculate_proximity_score(user_data.coords,
                               places_data[i].coords[1], DefaultMaxDistanceKm))

\* C7: a POST to /api/recommend with a place left after the city and the
\* distance filter answers success with exactly the remaining places, each
\* with its scoring_details, by final_score descending; it never answers 500.
C7_WebRequestRanksRemaining ==
    (request.entry = "web" /\ pc = "responded"
       /\ RemainingPlaces(places_data, request) # <<>>)
      => /\ response.status = 200
         /\ response.success
         /\ Len(response.recommendations) = Len(RemainingPlaces(places_data, request))
         /\ \A i \in Range(RemainingPlaces(places_data, request)) :
                Cardinality({k \in DOMAIN response.recommendations :
                                response.recommendations[k].name = places_data[i].name})
                  = Cardinality({j \in Range(RemainingPlaces(places_data, request)) :
                                    places_data[j].name = places_data[i].name})
         /\ \A k \in DOMAIN response.recommendations :
                response.recommendations[k].scoring_details # Absent
         /\ \A k \in 1..(Len(response.recommendations) - 1) :
                response.recommendations[k].scoring_details[1].final_score
                  >= response.recommendations[k + 1].scoring_details[1].final_score

\* The attribute profiles over the predefined attributes with values 0, 1/2, 1.
SampleProfiles == [Range(predefined_attributes) -> {QZero, QHalf, QOne}]

\* C8: when the user's raw weights sum to 0 or less, the preference score is
\* exactly 0 for every attribute profile, and scoring the place does not
\* raise.
C8_NonPositiveSumScoresZero ==
    (pc \in {"scoring", "returned", "raised"}
       /\ QLe(SumValues(user_data.preferences), QZero)) =>
        /\ \A profile \in SampleProfiles :
               calculate_preference_score(user_data.preferences, profile,
                                          predefined_attributes) = QZero
        /\ \A i \in DOMAIN places_data :
               Scored(i) => places_data[i].scoring_details[1].preference_score = 0
        /\ (pc = "raised" /\ exc = "KeyError") =>
               LET place == places_data[places_list[Len(scored_places) + 1]]
               IN  Absent \in {place.reviews, place.coords, place.budget}

\* A place with a non-zero profile scored for weights, not all zero, whose
\* sum is not positive.
C8_Witness ==
    /\ pc = "returned"
    /\ QLe(SumValues(user_data.preferences), QZero)
    /\ \E i \in DOMAIN places_data :
           /\ Scored(i)
           /\ \E a \in DOMAIN user_data.preferences \cap Range(predefined_attributes) :
                  /\ user_data.preferences[a] # QZero
                  /\ a \in DOMAIN ProfileOf(i)
                  /\ ProfileOf(i)[a] # QZero

\* The positive factors a preference mapping is scaled by.
ScaleFactors == {Q(a, b) : a, b \in 1..MaxScale}

Scaled(preferences, k) == [a \in DOMAIN preferences |-> QMul(k, preferences[a])]

\* C9: multiplying every weight of a mapping of positive sum by a positive
\* constant leaves the preference score as it is; so does dividing the
\* weights by their sum, as the web handler does before the call.
C9_ScaleInvariant ==
    QLt(QZero, SumValues(user_data.preferences)) =>
        \A i \in LastScored :
                LET profile == ProfileOf(i)
                IN  /\ \A k \in ScaleFactors :
                        Round4(calculate_preference_score(
                                   Scaled(user_data.preferences, k), profile,
                                   request.predefined_attributes))
                          = places_data[i].scoring_details[1].preference_score
                    /\ Round4(calculate_preference_score(
                                  NormalizedPayloadPreferences(user_data.preferences),
                                  profile, request.predefined_attributes))
                          = places_data[i].scoring_details[1].preference_score

\* A place scored above 0 for weights whose sum is positive and not 1.
C9_Witness ==
    /\ QLt(QOne, SumValues(user_data.preferences))
    /\ \E i \in DOMAIN places_data :
           Scored(i) /\ places_data[i].scoring_details[1].preference_score > 0

\* The mapping without the attributes that are not predefined.
OnlyPredefined(preferences) ==
    [a \in DOMAIN preferences \cap Range(request.predefined_attributes) |->
        preferences[a]]

\* C10: attributes that are not predefined never contribute: the preference
\* score is the one the mapping without them gets.
C10_OtherAttributesIgnored ==
    \A i \in DOMAIN places_data :
        Scored(i) =>
            places_data[i].scoring_details[1].preference_score =
                Round4(calculate_preference_score(
                           OnlyPredefined(user_data.preferences), ProfileOf(i),
                           request.predefined_attributes))

\* A review with a text that is not blank: the 'text' key is there, it is not
\* None, and some character of it is not whitespace.
NonBlank(review) ==
    /\ review.text # Absent
    /\ review.text[1] # None
    /\ \E k \in DOMAIN review.text[1] : review.text[1][k] # "sp"

\* The value the scorer gives a review for an attribute, 0 when it names none.
ScorerValue(review, attr) ==
    LET scores == get_review_attribute_scores(embedder, review.text[1])
    IN  IF attr \in DOMAIN scores THEN scores[attr] ELSE QZero

\* The mean of the scorer's values for attr over the non-blank reviews.
MeanOverIncluded(reviews, attr) ==
    LET included == SelectSeq(reviews, NonBlank)
    IN  QDiv(QSum([k \in DOMAIN included |-> ScorerValue(included[k], attr)]),
             QInt(Len(included)))

\* C11: the attribute profile of a place with a non-blank review is, for
\* each predefined attribute, the sum of the scorer's values over the
\* non-blank reviews divided by their number; the blank reviews (empty,
\* whitespace, None, no text) change nothing, and the preference score of the
\* place is the one of that profile.
C11_ProfileAveragesIncluded ==
    \A i \in LastScored :
        SelectSeq(places_data[i].reviews[1], NonBlank) # <<>> =>
            LET reviews == places_data[i].reviews[1]
                attributes == request.predefined_attributes
                mean == [attr \in Range(attributes) |->
                            MeanOverIncluded(reviews, attr)]
            IN  /\ ProfileOf(i) = mean
                /\ calculate_place_attribute_profile(
                       SelectSeq(reviews, NonBlank), embedder, attributes) = mean
                /\ places_data[i].scoring_details[1].preference_score =
                       Round4(calculate_preference_score(user_data.preferences,
                                                         mean, attributes))

\* A scored place with two non-blank reviews and a blank one, and a profile
\* that is not zero.
C11_Witness ==
    \E i \in DOMAIN places_data :
        /\ Scored(i)
        /\ Len(SelectSeq(places_data[i].reviews[1], NonBlank)) = 2
        /\ Len(places_data[i].reviews[1]) = 3
        /\ ProfileOf(i)["Cozy"] # QZero
        /\ places_data[i].scoring_details[1].preference_score > 0

\* The attribute names the scorer returns for a non-blank text.
ScorerNames ==
    IF embedder.attribute_names = Absent THEN {}
    ELSE Range(embedder.attribute_names[1])

\* C12: the attribute profile of a place has exactly the predefined
\* attributes as its keys, whatever names the scorer returns; an attribute
\* the scorer does not return is 0; with no non-blank review every entry is
\* 0 (and so is the preference score of the place).
C12_ProfileKeysArePredefined ==
    \A i \in DOMAIN places_data :
        Scored(i) =>
            LET attributes == Range(request.predefined_attributes)
            IN  /\ DOMAIN ProfileOf(i) = attributes
                /\ \A attr \in attributes \ ScorerNames :
                       ProfileOf(i)[attr] = QZero
                /\ SelectSeq(places_data[i].reviews[1], NonBlank) = <<>> =>
                       /\ \A attr \in attributes : ProfileOf(i)[attr] = QZero
                       /\ places_data[i].scoring_details[1].preference_score = 0

\* A scored place with a non-blank review whose scorer returns Cozy and an
\* attribute that is not predefined, and not Trendy.
C12_Witness ==
    \E i \in DOMAIN places_data :
        /\ Scored(i)
        /\ embedder.attribute_names = Some(<<"Cozy", OtherAttribute>>)
        /\ \E k \in DOMAIN places_data[i].reviews[1] :
               /\ NonBlank(places_data[i].reviews[1][k])
               /\ ScorerValue(places_data[i].reviews[1][k], OtherAttribute) # QZero
        /\ ProfileOf(i)["Cozy"] # QZero
        /\ ProfileOf(i)["Trendy"] = QZero

\* A blank text: None, empty, or whitespace only (a review without a text
\* reads as the empty one).
BlankText(text) == text = None \/ \A k \in DOMAIN text : text[k] = "sp"

\* C13: no call of the attribute scorer or of a sentiment pipeline made
\* during a ranking run has a blank text as its argument.
C13_NoCollaboratorCallOnBlank ==
    \A call \in invoked : ~BlankText(call[2])

\* A place with blank and non-blank reviews has been analyzed and profiled:
\* the scorer and a pipeline were called, and never on the blank ones.
C13_Witness ==
    /\ \E call \in invoked : call[1] = "embedder"
    /\ \E call \in invoked : call[1] \in {"en", "ar"}
    /\ \E i \in DOMAIN places_data :
           /\ Scored(i)
           /\ \E k \in DOMAIN places_data[i].reviews[1] :
                  places_data[i].reviews[1][k].text = Some(T_SPACES)
           /\ \E k \in DOMAIN places_data[i].reviews[1] :
                  places_data[i].reviews[1][k].text \in {Absent, Some(None)}
           /\ \E k \in DOMAIN places_data[i].reviews[1] :
                  NonBlank(places_data[i].reviews[1][k])

\* Positive cutoffs the proximity score is computed for.
Cutoffs == {1, 5, DefaultMaxDistanceKm, 11, WebDefaultMaxDistance}

\* C14: with d the distance of user and place and m a positive cutoff, the
\* proximity score is 0 when d > m and 1 - d/m when d <= m, so 1 at d = 0
\* and 0 at d = m, and never negative; a scored place carries that value for
\* the cutoff of 10 km, rounded.
C14_ProximityIsLinearWithCutoff ==
    \A i \in DOMAIN places_data :
        Scored(i) =>
            LET d == Abs(user_data.coords - places_data[i].coords[1])
            IN  /\ places_data[i].scoring_details[1].proximity_score =
                       IF d > DefaultMaxDistanceKm THEN 0
                       ELSE RoundDiv(10000 * (DefaultMaxDistanceKm - d),
                                     DefaultMaxDistanceKm)
                /\ \A m \in Cutoffs :
                       LET score == _calculate_proximity_score(
                                        user_data.coords,
                                        places_data[i].coords[1], m)
                       IN  /\ d > m => score = QZero
                           /\ d <= m => score = Q(m - d, m)
                           /\ d = 0 => score = QOne
                           /\ d = m => score = QZero
                           /\ QLe(QZero, score)

\* A ranking with a place beyond the cutoff, scored 0, and a place 8 km
\* away, scored 0.2.
C14_Witness ==
    /\ pc = "returned"
    /\ \E i \in Range(sorted_places) :
           /\ Abs(user_data.coords - places_data[i].coords[1]) > DefaultMaxDistanceKm
           /\ places_data[i].scoring_details[1].proximity_score = 0
    /\ \E i \in Range(sorted_places) :
           /\ Abs(user_data.coords - places_data[i].coords[1]) = 8
           /\ places_data[i].scoring_details[1].proximity_score = 2000

\* C15: for budgets in 0..3 the budget score is 1 - |user - place| / 3: 1 for
\* equal budgets, 0 for a difference of 3, and the smaller the greater the
\* difference; a scored place carries that value, rounded.
C15_BudgetScoreIsLinear ==
    \A i \in DOMAIN places_data :
        (Scored(i) /\ ValidInputs(i)) =>
            LET u == user_data.budget
                p == places_data[i].budget[1]
                score == _calculate_budget_score(u, p)
            IN  /\ score = Q(3 - Abs(u - p), 3)
                /\ u = p => score = QOne
                /\ Abs(u - p) = 3 => score = QZero
                /\ \A p2 \in BudgetLevels :
                       Abs(u - p) < Abs(u - p2) =>
                           QLt(_calculate_budget_score(u, p2), score)
                /\ places_data[i].scoring_details[1].budget_score =
                       RoundDiv(10000 * (3 - Abs(u - p)), 3)

\* A ranking with a place of the user's budget, scored 1, one a level above
\* and one two levels below.
C15_Witness ==
    /\ pc = "returned"
    /\ \E i, j, k \in Range(sorted_places) :
           /\ places_data[i].budget[1] = user_data.budget
           /\ places_data[i].scoring_details[1].budget_score = 10000
           /\ places_data[j].budget[1] = user_data.budget + 1
           /\ places_data[j].scoring_details[1].budget_score = 6667
           /\ places_data[k].budget[1] = user_data.budget - 2
           /\ places_data[k].scoring_details[1].budget_score = 3333

\* The review list with the sentiment_score of the reviews at the positions
\* in `unscored` taken away.
WithoutScores(reviews, unscored) ==
    [k \in DOMAIN reviews |->
        IF k \in unscored THEN [reviews[k] EXCEPT !.sentiment_score = Absent]
        ELSE reviews[k]]

\* How many reviews of the list carry the sentiment_score v.
CountScore(reviews, v) ==
    Cardinality({k \in DOMAIN reviews : reviews[k].sentiment_score = v})

\* The mean of the reviews' scores (each 0, 1/2 or 1), one without a score
\* counted as 1/2.
MeanSentiment(reviews) ==
    Q(2 * CountScore(reviews, Some(QOne)) + CountScore(reviews, Some(QHalf))
        + CountScore(reviews, Absent), 2 * Len(reviews))

\* C16: the aggregated sentiment is 0.5 for an empty review list and
\* otherwise the arithmetic mean of the reviews' sentiment_score, a review
\* without one counting as 0.5 (the scores 1 and 0 give 0.5); a scored place
\* carries that value of its analyzed reviews, rounded, and the function
\* gives the mean for its reviews with any of their scores taken away.
C16_AggregatedSentimentIsMean ==
    /\ _calculate_aggregated_sentiment(<<>>) = QHalf
    /\ \A i \in LastScored :
           LET reviews == places_data[i].reviews[1]
           IN  /\ places_data[i].scoring_details[1].sentiment_score =
                      IF reviews = <<>> THEN 5000
                      ELSE Round4(MeanSentiment(reviews))
               /\ \A unscored \in SUBSET DOMAIN reviews :
                      reviews # <<>> =>
                          _calculate_aggregated_sentiment(
                              WithoutScores(reviews, unscored))
                            = MeanSentiment(WithoutScores(reviews, unscored))

\* A scored place with two reviews, analyzed as 1 and as 0, and the
\* sentiment score 0.5.
C16_Witness ==
    \E i \in DOMAIN places_data :
        /\ Scored(i)
        /\ Len(places_data[i].reviews[1]) = 2
        /\ places_data[i].reviews[1][1].sentiment_score = Some(QOne)
        /\ places_data[i].reviews[1][2].sentiment_score = Some(QZero)
        /\ places_data[i].scoring_details[1].sentiment_score = 5000

\* analyze_reviews has returned for place i: its reviews all carry a score.
Analyzed(i) ==
    /\ places_data[i].reviews # Absent
    /\ places_data[i].reviews[1] # <<>>
    /\ \A k \in DOMAIN places_data[i].reviews[1] :
           places_data[i].reviews[1][k].sentiment_score # Absent

NextPlace == places_list[Len(scored_places) + 1]

\* C18: with the sentiment models not loaded, analyze_reviews does not
\* raise: a turn of the loop leaves the place's reviews as many as they were,
\* each with its text and with a sentiment_score, the same default (0 or
\* 0.5) for all reviews of all places; the run ends in an exception only for
\* a place without reviews, coords or budget, and every other place is scored.
C18_UnloadedModelsDefaultScore ==
    /\ [](pipelines = {} =>
            /\ \E v \in {QZero, QHalf} :
                   \A i \in DOMAIN places_data :
                       places_data[i].reviews # Absent =>
                           \A k \in DOMAIN places_data[i].reviews[1] :
                               places_data[i].reviews[1][k].sentiment_score
                                   \in {Absent, Some(v)}
            /\ pc = "raised" =>
                   /\ exc = "KeyError"
                   /\ Absent \in {places_data[NextPlace].reviews,
                                   places_data[NextPlace].coords,
                                   places_data[NextPlace].budget})
    /\ [][(pipelines = {} /\ pc = "scoring"
              /\ Len(scored_places) < Len(places_list)
              /\ places_data[NextPlace].reviews # Absent) =>
            LET before == places_data[NextPlace].reviews[1]
                after == places_data'[NextPlace].reviews[1]
            IN  /\ Len(after) = Len(before)
                /\ \A k \in DOMAIN after :
                       /\ after[k].text = before[k].text
                       /\ after[k].sentiment_score # Absent
                /\ (places_data[NextPlace].coords # Absent
                      /\ places_data[NextPlace].budget # Absent) =>
                       /\ scored_places' = Append(scored_places, NextPlace)
                       /\ places_data'[NextPlace].scoring_details # Absent]_vars

\* With no models loaded, a ranking of several places, one of them with a
\* blank and a non-blank review, all their reviews scored 0.
C18_Witness ==
    /\ pipelines = {}
    /\ pc = "returned"
    /\ Len(sorted_places) >= 2
    /\ \A i \in Range(sorted_places) :
           /\ Scored(i)
           /\ \A k \in DOMAIN places_data[i].reviews[1] :
                  places_data[i].reviews[1][k].sentiment_score = Some(QZero)
    /\ \E i \in Range(sorted_places) :
           /\ \E k \in DOMAIN places_data[i].reviews[1] :
                  NonBlank(places_data[i].reviews[1][k])
           /\ \E k \in DOMAIN places_data[i].reviews[1] :
                  ~NonBlank(places_data[i].reviews[1][k])

\* A collaborator raises when it is called.
CollaboratorFails == raising # {} \/ embedder.raising

\* C19: when a call of the attribute scorer or of a sentiment pipeline fails
\* while a place is scored, rank_places does not end in that exception: it
\* returns a ranking with every place of its input, each with its scores.
C19_CollaboratorFailureDoesNotAbort ==
    CollaboratorFails =>
        /\ exc # "RuntimeError"
        /\ pc = "returned" =>
               /\ Len(sorted_places) = Len(places_list)
               /\ \A i \in Range(places_list) :
                      i \in Range(sorted_places) /\ Scored(i)

\* The configuration is invalid: no predefined attribute, or a negative
\* maximum distance.
InvalidConfiguration ==
    \/ request.predefined_attributes = <<>>
    \/ request.max_distance # Absent /\ request.max_distance[1] < 0

\* C20: with an invalid configuration no place is ever scored and no ranking
\* is returned, to a caller of rank_places or in a response.
C20_InvalidConfigurationIsFatal ==
    InvalidConfiguration =>
        /\ \A i \in DOMAIN places_data : ~Scored(i)
        /\ pc # "returned"
        /\ response.status # 200

\* The request names no candidate place: rank_places is given an empty list,
\* or the endpoint's city and distance filters leave no place.
NoCandidate ==
    \/ request.entry = "cli" /\ places_data = <<>>
    \/ request.entry = "web" /\ RemainingPlaces(places_data, request) = <<>>

\* C21: a ranking request with no candidate place does not end in a returned
\* (empty) ranking: rank_places does not return, and a response is the 404
\* "no places found", not a success.
C21_NoCandidateIsNoResults ==
    NoCandidate =>
        /\ pc # "returned"
        /\ pc = "responded" => response.status = 404 /\ ~response.success

\* The record without its scoring_details.
WithoutDetails(place) == [place EXCEPT !.scoring_details = Absent]

\* C22: while and after rank_places runs, every place record is as it was
\* when the call was made, scoring_details apart: every other field, each
\* review record of its reviews included, has the content it had.
C22_OnlyScoringDetailsAttached ==
    run > 0 =>
        \A i \in DOMAIN places_data :
            WithoutDetails(places_data[i]) = WithoutDetails(called_with.places[i])

\* The ranking and the breakdowns of the call that has returned are those of
\* the call before it.
SameAsPrevious ==
    /\ sorted_places = previous.ranked
    /\ \A i \in DOMAIN places_data :
           places_data[i].scoring_details = previous.details[i]

ScoredAlone(i) ==
    calculate_final_score(called_with.places[i], user_data, embedder,
                          SentimentAnalyzer(pipelines, raising),
                          request.predefined_attributes)

\* The final scores of the places, each scored by itself.
FinalScoresAlone ==
    [i \in DOMAIN places_data |->
        IF ScoredAlone(i).details = Absent THEN 0
        ELSE ScoredAlone(i).details[1].final_score]

Malformed(place) ==
    place.reviews = Absent \/ place.budget = Absent \/ place.coords = Absent

\* C25: when the list given to rank_places holds a malformed record, the call
\* fails where it accepts the records: no collaborator is ever invoked, no
\* place gets scoring_details, and no ranking is returned.
C25_MalformedRecordFailsAtBoundary ==
    (run > 0 /\ \E i \in Range(places_list) : Malformed(called_with.places[i])) =>
        /\ invoked = {}
        /\ \A i \in DOMAIN places_data : ~Scored(i)
        /\ pc # "returned"

\* C26: budgets outside 0..3 are taken as they come: for any integer budgets
\* the budget score is 1 - |user - place| / 3 (below 0 for a difference
\* above 3), a scored place carries that value, rounded, and no call of
\* rank_places ends in an exception for the budgets' sake: one that fails
\* does so on a record without reviews, coords or budget, or on a failing
\* collaborator.
C26_BudgetScaleExtends ==
    /\ \A i \in DOMAIN places_data :
           (Scored(i) /\ places_data[i].budget # Absent) =>
               LET u == user_data.budget
                   p == places_data[i].budget[1]
               IN  /\ _calculate_budget_score(u, p) = Q(3 - Abs(u - p), 3)
                   /\ places_data[i].scoring_details[1].budget_score =
                          RoundDiv(10000 * (3 - Abs(u - p)), 3)
    /\ (pc = "raised" /\ run > 0) =>
           Malformed(places_data[NextPlace]) \/ CollaboratorFails

\* A place scored with both budgets outside 0..3, its budget score below 0.
C26_Witness ==
    \E i \in DOMAIN places_data :
        /\ Scored(i)
        /\ user_data.budget \notin BudgetLevels
        /\ places_data[i].budget[1] \notin BudgetLevels
        /\ places_data[i].scoring_details[1].budget_score < 0
        /\ pc = "returned"

\* C27: between two rows of collect_data, when the number of places collected
\* so far is a positive multiple of save_interval, a checkpoint of all the
\* places and reviews collected so far has been written.
C27_CheckpointEverySaveInterval ==
    (/\ collector.pc = "collecting"
     /\ collector.save_interval > 0
     /\ Len(collector.places_list) > 0
     /\ Len(collector.places_list) % collector.save_interval = 0) =>
        \E k \in DOMAIN collector.files :
            collector.files[k] = Saved("checkpoint", collector.places_list,
                                       collector.all_raw_reviews)

\* C28: a call of rank_places on the list the call before returned (the same
\* records, carrying that call's scoring_details and sentiment scores), with
\* the same user data and collaborators, returns the places in the same
\* order, each with the same scoring_details: what a call attaches replaces
\* what was there and owes nothing to it.
C28_RerankingIdempotent ==
    (pc = "returned" /\ previous.how = "returned list") => SameAsPrevious

\* A second call on the returned list of two places or more has returned; the
\* returned list was not in the first call's input order, and a review was
\* scored 1 by a pipeline in both calls.
C28_Witness ==
    /\ pc = "returned" /\ previous.how = "returned list"
    /\ Len(sorted_places) >= 2
    /\ places_list # [k \in 1..Len(places_list) |-> k]
    /\ \A i \in Range(places_list) : called_with.places[i].scoring_details # Absent
    /\ \E i \in Range(sorted_places) :
           \E k \in DOMAIN places_data[i].reviews[1] :
               /\ called_with.places[i].reviews[1][k].sentiment_score = Some(QOne)
               /\ places_data[i].reviews[1][k].sentiment_score = Some(QOne)

\* Each of place a's four component scores, as calculate_final_score
\* computes them, is greater than or equal to place b's.
Dominates(a, b) ==
    /\ QLe(SentimentOf(b), SentimentOf(a))
    /\ QLe(PreferenceOf(b), PreferenceOf(a))
    /\ QLe(ProximityOf(b), ProximityOf(a))
    /\ QLe(BudgetOf(b), BudgetOf(a))

\* C29: in a returned ranking, a place a whose four component scores are
\* each greater than or equal to place b's has a final_score greater than or
\* equal to b's, and b stands before a only if their final scores are equal
\* and b stood before a in the input.
C29_DominanceOrdersPlaces ==
    pc = "returned" =>
        \A a, b \in Range(sorted_places) :
            Dominates(a, b) =>
                /\ FinalScoreOf(a) >= FinalScoreOf(b)
                /\ IndexOf(sorted_places, b) < IndexOf(sorted_places, a) =>
                       /\ FinalScoreOf(a) = FinalScoreOf(b)
                       /\ IndexOf(places_list, b) < IndexOf(places_list, a)

\* A returned ranking where a place dominates another that stood before it
\* in the input with a smaller final score, and a place dominates another
\* of equal final score that stays before it.
C29_Witness ==
    /\ pc = "returned"
    /\ \E a, b \in Range(sorted_places) :
           /\ Dominates(a, b)
           /\ FinalScoreOf(a) > FinalScoreOf(b)
           /\ IndexOf(places_list, b) < IndexOf(places_list, a)
           /\ IndexOf(sorted_places, a) < IndexOf(sorted_places, b)
    /\ \E a, b \in Range(sorted_places) :
           /\ a # b
           /\ Dominates(a, b)
           /\ IndexOf(sorted_places, b) < IndexOf(sorted_places, a)

\* C30: rank_places leaves the caller's list as it was given, in length and
\* in order; the list it returns is another list, of the same records: every
\* position of it is a position of the input list, and the scoring_details
\* the call attached is read through the input list as well.
C30_InputListKept ==
    run > 0 =>
        /\ places_list = called_with.list
        /\ pc = "returned" =>
               /\ Range(sorted_places) = Range(places_list)
               /\ \A j \in DOMAIN places_list : Scored(places_list[j])

\* A returned ranking of two places or more that is not in the input order.
C30_Witness ==
    /\ pc = "returned"
    /\ Len(places_list) >= 2
    /\ sorted_places # places_list
    /\ places_list = called_with.list
    /\ \A j \in DOMAIN places_list : Scored(places_list[j])
=============================================================================
